---- MODULE Spec2Model ----
(***************************************************************************)
(* Weather-Data-Pipeline: the collection cycle (probe, fetch, validate,    *)
(* store, warehouse upload), the storage layer over the relational store,  *)
(* the status query, the continuous loop and the command entry point.      *)
(*                                                                         *)
(* Python values are tagged pairs [t, v]:                                  *)
(*   "none"  None                                                          *)
(*   "num"   an int or float, v in hundredths (21.5 is 2150)               *)
(*   "str"   a string, v the text                                          *)
(*   "dtu"   a timezone-aware UTC datetime, v in days since the epoch      *)
(*   "dtn"   a naive datetime, v in days since the epoch                   *)
(* A numeric epoch timestamp is a "num" whose v is days * 100.             *)
(* A dict is a function from the keys it holds to values.                  *)
(***************************************************************************)
EXTENDS Integers, Sequences, FiniteSets, TLC

\* ------------------------------------------------------------------ bounds
MaxCities == 2      \* longest list of requested cities
MaxRows == 2        \* a command starts only while the store can take its rows
MaxTicks == 1       \* how far the clock advances
MaxBatch == 2       \* longest batch handed to store_weather_data directly
MaxInterval == 1    \* longest interval of the continuous mode, in minutes
MaxList == 2        \* longest list handed to filter_valid_records directly

\* --------------------------------------------------------- program constants
KelvinOffset == 27315   \* + 273.15, in hundredths
TempMin == -100
TempMax == 60
HumidityMin == 0
HumidityMax == 100
PressureMin == 800
PressureMax == 1200
WindMin == 0
WindMax == 200
CloudMin == 0
CloudMax == 100
StatsDays == 7
MaxDatetimeDay == 2932896   \* 9999-12-31, the last day a datetime holds

\* ------------------------------------------------------------------ values
None == [t |-> "none", v |-> 0]
Num(n) == [t |-> "num", v |-> n]
Str(s) == [t |-> "str", v |-> s]
DtUtc(d) == [t |-> "dtu", v |-> d]
DtNaive(d) == [t |-> "dtn", v |-> d]
\* float("nan"), which json.loads gives for the token NaN of a payload
NaN == [t |-> "nan", v |-> 0]

IsNumber(x) == x.t = "num"
IsDatetime(x) == x.t \in {"dtu", "dtn"}

\* dict.get(key) and dict.get(key, default)
Get(d, k) == IF k \in DOMAIN d THEN d[k] ELSE None
GetOr(d, k, dflt) == IF k \in DOMAIN d THEN d[k] ELSE dflt

\* d with d[k] = x (k added when absent)
Put(d, k, x) == [f \in DOMAIN d \cup {k} |-> IF f = k THEN x ELSE d[f]]

\* The strings float() parses, with their value in hundredths.
NumericText == [s \in {"50", " 50 ", "150"} |->
                  CASE s = "50" -> 5000 [] s = " 50 " -> 5000 [] s = "150" -> 15000]

\* float(x) succeeds (no ValueError, no TypeError)
FloatOk(x) ==
  \/ x.t \in {"num", "nan"}
  \/ x.t = "str" /\ x.v \in DOMAIN NumericText

\* float(x) in hundredths, where FloatOk(x) and x is not NaN
FloatVal(x) == IF x.t = "str" THEN NumericText[x.v] ELSE x.v

\* float(x) as a value, where FloatOk(x)
Float(x) == IF x.t = "nan" THEN NaN ELSE Num(FloatVal(x))

\* float(x) < bound and float(x) > bound: both False when float(x) is NaN
FloatLess(x, bound) == x.t # "nan" /\ FloatVal(x) < bound
FloatMore(x, bound) == x.t # "nan" /\ FloatVal(x) > bound

\* A strip that removes one blank a call, the leading one first.
StripOnce(s) ==
  CASE s = " Paris " -> "Paris "
    [] s = "Paris " -> "Paris"
    [] s = " 50 " -> "50 "
    [] s = "50 " -> "50"
    [] OTHER -> s

\* str.strip() on the strings of the model
Strip(s) ==
  CASE s = " Paris " -> "Paris"
    [] s = " 50 " -> "50"
    [] OTHER -> s

\* str(x)
PyStr(x) ==
  CASE x.t = "str" -> x.v
    [] x.t = "none" -> "None"
    [] OTHER -> ToString(x.v)

\* datetime.fromtimestamp(ts, tz=pytz.UTC): epoch number to aware UTC datetime
FromTimestamp(x) == DtUtc(x.v \div 100)

\* --------------------------------------------------------------- validator
RequiredFields ==
  {"city", "country", "timestamp", "temperature", "temperature_celsius",
   "humidity", "pressure", "description", "weather_main"}

NumericFields ==
  {"temperature", "temperature_celsius", "feels_like", "humidity", "pressure",
   "visibility", "wind_speed", "wind_direction", "cloudiness"}

StringFields == {"city", "country", "description", "weather_main"}

\* A range check that rejects its two ends.
InRangeOpen(x, lo, hi) ==
  FloatOk(x) /\ FloatVal(x) > lo * 100 /\ FloatVal(x) < hi * 100

\* float(x) succeeds and neither `float(x) < lo` nor `float(x) > hi` holds
\* (lo, hi in whole units)
InRange(x, lo, hi) ==
  FloatOk(x) /\ ~FloatLess(x, lo * 100) /\ ~FloatMore(x, hi * 100)

\* validate_weather_data without its wind speed and cloudiness checks.
validate_skips_optional(data) ==
  /\ \A field \in RequiredFields : field \in DOMAIN data /\ data[field] # None
  /\ InRange(data["temperature_celsius"], TempMin, TempMax)
  /\ InRange(data["humidity"], HumidityMin, HumidityMax)
  /\ InRange(data["pressure"], PressureMin, PressureMax)

\* WeatherDataValidator.validate_weather_data
validate_weather_data(data) ==
  /\ \A field \in RequiredFields : field \in DOMAIN data /\ data[field] # None
  /\ InRange(data["temperature_celsius"], TempMin, TempMax)
  /\ InRange(data["humidity"], HumidityMin, HumidityMax)
  /\ InRange(data["pressure"], PressureMin, PressureMax)
  /\ (Get(data, "wind_speed") # None
        => InRange(data["wind_speed"], WindMin, WindMax))
  /\ InRange(GetOr(data, "cloudiness", Num(0)), CloudMin, CloudMax)

\* datetime.fromtimestamp raises (OverflowError, ValueError) on a number past
\* the last datetime: clean_weather_data has no handler for it.
CleanRaises(data) ==
  /\ IsNumber(Get(data, "timestamp"))
  /\ data["timestamp"].v \div 100 > MaxDatetimeDay

\* WeatherDataValidator.clean_weather_data, where it does not raise
clean_weather_data(data) ==
  [f \in DOMAIN data |->
     CASE f = "timestamp" ->
            IF IsNumber(data[f]) THEN FromTimestamp(data[f]) ELSE data[f]
       [] f \in NumericFields ->
            IF data[f] = None THEN None
            ELSE IF FloatOk(data[f]) THEN Float(data[f]) ELSE None
       [] f \in StringFields -> Str(Strip(PyStr(data[f])))
       [] OTHER -> data[f]]

\* filter_valid_records without the validate_weather_data test: every record
\* is cleaned and kept.
filter_keeps_invalid(weather_records) ==
  [i \in 1..Len(weather_records) |-> clean_weather_data(weather_records[i])]

\* filter_valid_records raises: clean_weather_data raises on a record that
\* validate_weather_data accepts.
FilterRaises(weather_records) ==
  \E i \in 1..Len(weather_records) :
    validate_weather_data(weather_records[i]) /\ CleanRaises(weather_records[i])

\* WeatherDataValidator.filter_valid_records, where it does not raise
filter_valid_records(weather_records) ==
  LET kept == SelectSeq(weather_records, validate_weather_data)
  IN [i \in 1..Len(kept) |-> clean_weather_data(kept[i])]

\* ------------------------------------------------------------------ fetcher
\* What one HTTP request yields: HttpError (a RequestException: timeout, 4xx,
\* 5xx) or the JSON payload, flattened: name, country (sys.country), dt,
\* temp, feels_like, humidity, pressure (main.*), visibility, wind_speed,
\* wind_deg (wind.*), clouds (clouds.all), description, main (weather[0].*).
HttpError == [error |-> Str("RequestException")]

IsPayload(r) == "error" \notin DOMAIN r

PayloadRequired ==
  {"name", "country", "dt", "temp", "feels_like", "humidity", "pressure",
   "clouds", "description", "main"}

\* WeatherAPIClient._transform_weather_data raises (a KeyError turned into a
\* ValueError, or the TypeError of a non-number plus 273.15)
TransformRaises(raw_data) ==
  \/ \E k \in PayloadRequired : k \notin DOMAIN raw_data
  \/ ~IsNumber(raw_data["temp"])
  \/ ~IsNumber(raw_data["feels_like"])

\* WeatherAPIClient._transform_weather_data, where it does not raise
transform_weather_data(raw_data) ==
  [city |-> raw_data["name"],
   country |-> raw_data["country"],
   timestamp |-> raw_data["dt"],
   temperature |-> Num(raw_data["temp"].v + KelvinOffset),
   temperature_celsius |-> raw_data["temp"],
   feels_like |-> Num(raw_data["feels_like"].v + KelvinOffset),
   humidity |-> raw_data["humidity"],
   pressure |-> raw_data["pressure"],
   visibility |-> Get(raw_data, "visibility"),
   wind_speed |-> Get(raw_data, "wind_speed"),
   wind_direction |-> Get(raw_data, "wind_deg"),
   cloudiness |-> raw_data["clouds"],
   description |-> raw_data["description"],
   weather_main |-> raw_data["main"]]

\* WeatherAPIClient.get_current_weather on the response of its request:
\* <<record>> when a record is returned, << >> when None is returned
get_current_weather(response) ==
  IF ~IsPayload(response) THEN << >>
  ELSE IF TransformRaises(response) THEN << >>
  ELSE <<transform_weather_data(response)>>

\* WeatherAPIClient.test_connection on the response to its "London" request
test_connection(response) == get_current_weather(response) # << >>

\* ------------------------------------------------------- database session
\* models.py: the columns declared nullable=False (id is assigned by the store)
NotNullColumns ==
  {"city", "country", "timestamp", "temperature", "temperature_celsius",
   "feels_like", "humidity", "pressure", "cloudiness", "description",
   "weather_main"}

\* A session call: op with the row it adds (<<row>>) or << >>.
Ev(op) == [op |-> op, row |-> << >>]
EvAdd(row) == [op |-> "add", row |-> <<row>>]

\* What SQLite binds for a value: NULL for a float that is NaN.
Bound(x) == IF x.t = "nan" THEN None ELSE x

\* What the store keeps of a row: the DateTime column holds no timezone, the
\* autoincrement id is the row's position.
Persisted(row, id) ==
  [f \in DOMAIN row \cup {"id"} |->
     CASE f = "id" -> Num(id * 100)
       [] f = "timestamp" ->
            IF row[f].t = "dtu" THEN DtNaive(row[f].v) ELSE row[f]
       [] OTHER -> Bound(row[f])]

\* Session.commit flushes the pending rows; the flush fails on a NULL in a
\* NOT NULL column, or on a fault of the engine.
FlushFails(pending) ==
  \E i \in 1..Len(pending) :
    \E c \in NotNullColumns : Bound(pending[i][c]) = None

\* The state of a store and one session on it after the calls of events, from
\* st = [db, pending, open]: add queues a row, commit writes the queue,
\* rollback and close drop it.
RECURSIVE SessionRun(_, _)
SessionRun(st, events) ==
  IF events = << >> THEN st
  ELSE
    LET e == Head(events)
        nxt ==
          CASE e.op = "get_session" -> [st EXCEPT !.open = @ + 1]
            [] e.op = "add" -> [st EXCEPT !.pending = Append(@, e.row[1])]
            [] e.op = "commit" ->
                 [st EXCEPT
                    !.db = @ \o [i \in 1..Len(st.pending) |->
                                   Persisted(st.pending[i], Len(st.db) + i)],
                    !.pending = << >>]
            [] e.op = "rollback" -> [st EXCEPT !.pending = << >>]
            [] e.op = "close" -> [st EXCEPT !.pending = << >>, !.open = @ - 1]
            [] OTHER -> st
    IN SessionRun(nxt, Tail(events))

\* ------------------------------------------------------------ storage: write
\* The keys store_weather_data reads with record[...]: a KeyError when absent.
IndexedKeys ==
  {"city", "country", "temperature", "temperature_celsius", "humidity",
   "pressure", "description", "weather_main"}

\* data_storage.py 37-43: the record with its timestamp normalised in place
NormalizeTimestamp(record, clock) ==
  LET timestamp == Get(record, "timestamp")
  IN IF IsNumber(timestamp) THEN Put(record, "timestamp", FromTimestamp(timestamp))
     ELSE IF ~IsDatetime(timestamp) THEN Put(record, "timestamp", DtNaive(clock))
     ELSE record

\* data_storage.py 46-61: WeatherData(...) of a normalised record
WeatherDataObj(record) ==
  [city |-> record["city"],
   country |-> record["country"],
   timestamp |-> record["timestamp"],
   temperature |-> record["temperature"],
   temperature_celsius |-> record["temperature_celsius"],
   feels_like |-> Get(record, "feels_like"),
   humidity |-> record["humidity"],
   pressure |-> record["pressure"],
   visibility |-> Get(record, "visibility"),
   wind_speed |-> Get(record, "wind_speed"),
   wind_direction |-> Get(record, "wind_direction"),
   cloudiness |-> GetOr(record, "cloudiness", Num(0)),
   description |-> record["description"],
   weather_main |-> record["weather_main"]]

\* The first record whose construction raises KeyError, 0 when none does.
FirstKeyError(weather_records) ==
  LET bad == {i \in 1..Len(weather_records) :
                ~(IndexedKeys \subseteq DOMAIN weather_records[i])}
  IN IF bad = {} THEN 0 ELSE CHOOSE i \in bad : \A j \in bad : i <= j

StoreFaults == {"none", "session_error", "commit_error", "interrupt"}

\* store_weather_data whose loop stops one record short.
store_drops_last(weather_records, fault, clock) ==
  LET n == Len(weather_records)
      records == [i \in 1..n |-> NormalizeTimestamp(weather_records[i], clock)]
      adds == [i \in 1..(n - 1) |-> EvAdd(WeatherDataObj(records[i]))]
  IN IF weather_records = << >> \/ fault # "none" \/ FirstKeyError(weather_records) # 0
     THEN [events |-> << >>,
           raised |-> IF weather_records = << >> THEN "" ELSE "OperationalError",
           count |-> 0, records |-> weather_records]
     ELSE [events |-> <<Ev("get_session")>> \o adds \o <<Ev("commit"), Ev("close")>>,
           raised |-> "", count |-> n, records |-> records]

\* store_weather_data whose handler commits what was added before it re-raises.
store_commits_partial(weather_records, fault, clock) ==
  LET bad == FirstKeyError(weather_records)
      added == IF bad = 0 THEN Len(weather_records) ELSE bad - 1
      records == [i \in 1..Len(weather_records) |->
                    NormalizeTimestamp(weather_records[i], clock)]
      adds == [i \in 1..added |-> EvAdd(WeatherDataObj(records[i]))]
  IN IF weather_records = << >>
     THEN [events |-> << >>, raised |-> "", count |-> 0, records |-> weather_records]
     ELSE IF bad # 0 \/ fault # "none"
     THEN [events |-> <<Ev("get_session")>> \o adds \o <<Ev("commit"), Ev("close")>>,
           raised |-> IF bad # 0 THEN "KeyError" ELSE "OperationalError",
           count |-> 0, records |-> records]
     ELSE [events |-> <<Ev("get_session")>> \o adds \o <<Ev("commit"), Ev("close")>>,
           raised |-> "", count |-> added, records |-> records]

\* store_weather_data without the early return of line 27: an empty batch goes
\* through a session and an empty commit.
store_without_empty_return(weather_records, fault, clock) ==
  LET records == [i \in 1..Len(weather_records) |->
                    NormalizeTimestamp(weather_records[i], clock)]
      adds == [i \in 1..Len(weather_records) |-> EvAdd(WeatherDataObj(records[i]))]
  IN IF fault # "none" \/ FirstKeyError(weather_records) # 0
     THEN [events |-> << >>, raised |-> "OperationalError", count |-> 0,
           records |-> weather_records]
     ELSE [events |-> <<Ev("get_session")>> \o adds \o <<Ev("commit"), Ev("close")>>,
           raised |-> "", count |-> Len(weather_records), records |-> records]

\* store_weather_data without its finally block: the session is closed on the
\* commit path alone.
store_leaks_on_rollback(weather_records, fault, clock) ==
  LET bad == FirstKeyError(weather_records)
      added == IF bad = 0 THEN Len(weather_records) ELSE bad - 1
      records == [i \in 1..Len(weather_records) |->
                    NormalizeTimestamp(weather_records[i], clock)]
      adds == [i \in 1..added |-> EvAdd(WeatherDataObj(records[i]))]
      pending == [i \in 1..added |-> adds[i].row[1]]
  IN
  IF weather_records = << >> THEN
    [events |-> << >>, raised |-> "", count |-> 0, records |-> weather_records]
  ELSE IF fault = "session_error" THEN
    [events |-> << >>, raised |-> "OperationalError", count |-> 0,
     records |-> weather_records]
  ELSE IF bad # 0 \/ fault # "none" \/ FlushFails(pending) THEN
    [events |-> <<Ev("get_session")>> \o adds \o <<Ev("rollback")>>,
     raised |-> "OperationalError", count |-> 0, records |-> records]
  ELSE
    [events |-> <<Ev("get_session")>> \o adds \o <<Ev("commit"), Ev("close")>>,
     raised |-> "", count |-> added, records |-> records]

\* WeatherDataStorage.store_weather_data(weather_records) at time clock, under
\* fault: "session_error" get_session raises, "commit_error" the engine fails
\* the commit, "interrupt" a KeyboardInterrupt arrives at the commit.
\* Gives the session calls made, what is raised ("" when it returns), the
\* count returned and the caller's records as the call leaves them.
store_weather_data(weather_records, fault, clock) ==
  LET bad == FirstKeyError(weather_records)
      looped == IF bad = 0 THEN Len(weather_records) ELSE bad
      added == IF bad = 0 THEN Len(weather_records) ELSE bad - 1
      records == [i \in 1..Len(weather_records) |->
                    IF i <= looped
                    THEN NormalizeTimestamp(weather_records[i], clock)
                    ELSE weather_records[i]]
      adds == [i \in 1..added |-> EvAdd(WeatherDataObj(records[i]))]
      pending == [i \in 1..added |-> adds[i].row[1]]
  IN
  IF weather_records = << >> THEN
    [events |-> << >>, raised |-> "", count |-> 0, records |-> weather_records]
  ELSE IF fault = "session_error" THEN
    [events |-> << >>, raised |-> "OperationalError", count |-> 0,
     records |-> weather_records]
  ELSE IF bad # 0 THEN
    [events |-> <<Ev("get_session")>> \o adds \o <<Ev("rollback"), Ev("close")>>,
     raised |-> "KeyError", count |-> 0, records |-> records]
  ELSE IF fault = "interrupt" THEN
    [events |-> <<Ev("get_session")>> \o adds \o <<Ev("close")>>,
     raised |-> "KeyboardInterrupt", count |-> 0, records |-> records]
  ELSE IF fault = "commit_error" \/ FlushFails(pending) THEN
    [events |-> <<Ev("get_session")>> \o adds \o <<Ev("rollback"), Ev("close")>>,
     raised |-> IF fault = "commit_error" THEN "OperationalError"
                ELSE "IntegrityError",
     count |-> 0, records |-> records]
  ELSE
    [events |-> <<Ev("get_session")>> \o adds \o <<Ev("commit"), Ev("close")>>,
     raised |-> "", count |-> added, records |-> records]

\* ------------------------------------------------------------- storage: read
\* The store's binary collation on the city names of the model.
CityOrder == <<" Paris ", "London", "Paris">>
CityRank(name) == CHOOSE i \in 1..Len(CityOrder) : CityOrder[i] = name

\* WeatherData.city.ilike("%pattern%") on the names of the model:
\* <<pattern, name>> for every name the LIKE pattern matches, case ignored. The
\* argument is put in the pattern as it is: its "_" stands for any one
\* character and its "%" for any run of characters.
ILikePairs ==
  {<<"Paris", "Paris">>, <<"paris", "Paris">>, <<"Paris", " Paris ">>,
   <<"paris", " Paris ">>, <<"London", "London">>, <<"london", "London">>,
   <<"on", "London">>, <<"ON", "London">>,
   <<"P_ris", "Paris">>, <<"P_ris", " Paris ">>}
ILike(pattern, name) == <<pattern, name>> \in ILikePairs

\* `if city:` is false for None and for ""
CityGiven(city) == city.t = "str" /\ city.v # ""

FilterCity(rows, city) ==
  IF CityGiven(city)
  THEN SelectSeq(rows, LAMBDA r : ILike(city.v, r["city"].v))
  ELSE rows

\* ORDER BY city, timestamp DESC: row a may come before row b
OrderedCityTsDesc(a, b) ==
  \/ CityRank(a["city"].v) < CityRank(b["city"].v)
  \/ /\ a["city"].v = b["city"].v
     /\ a["timestamp"].v >= b["timestamp"].v

\* ORDER BY timestamp DESC
OrderedTsDesc(a, b) == a["timestamp"].v >= b["timestamp"].v

\* Every order of rows the ORDER BY allows (rows equal under it come in any
\* order: the query names no tie-break).
Orderings(rows, Ordered(_, _)) ==
  {[i \in 1..Len(rows) |-> rows[p[i]]] :
     p \in {q \in Permutations(1..Len(rows)) :
              \A i, j \in 1..Len(rows) :
                 i < j => Ordered(rows[q[i]], rows[q[j]])}}

\* data_storage.py 103-108: the first record of each city
FirstPerCity(records) ==
  LET keep == {i \in 1..Len(records) :
                 \A j \in 1..(i - 1) : records[j]["city"] # records[i]["city"]}
      RECURSIVE Pick(_)
      Pick(i) ==
        IF i > Len(records) THEN << >>
        ELSE IF i \in keep THEN <<records[i]>> \o Pick(i + 1)
        ELSE Pick(i + 1)
  IN Pick(1)

ReadFaults == {"none", "session_error", "query_error"}

ReadEvents(fault) ==
  IF fault = "session_error" THEN << >>
  ELSE <<Ev("get_session"), Ev("close")>>

ReadRaised(fault) == IF fault = "session_error" THEN "OperationalError" ELSE ""

\* WeatherDataStorage.get_latest_weather(city): the lists it may return
get_latest_weather(rows, city, fault) ==
  IF fault # "none" THEN {<< >>}
  ELSE {FirstPerCity(o) : o \in Orderings(FilterCity(rows, city), OrderedCityTsDesc)}

\* WeatherDataStorage.get_weather_history(city, days): the lists it may return
get_weather_history(rows, city, days, clock, fault) ==
  IF fault # "none" THEN {<< >>}
  ELSE LET start_date == clock - days
           hit == SelectSeq(rows, LAMBDA r :
                              /\ ILike(city.v, r["city"].v)
                              /\ r["timestamp"].v >= start_date)
       IN Orderings(hit, OrderedTsDesc)

RECURSIVE SumOf(_, _)
SumOf(records, column) ==
  IF records = << >> THEN 0
  ELSE Head(records)[column].v + SumOf(Tail(records), column)

MinOf(records, column) ==
  CHOOSE m \in {records[i][column].v : i \in 1..Len(records)} :
    \A i \in 1..Len(records) : m <= records[i][column].v

MaxOf(records, column) ==
  CHOOSE m \in {records[i][column].v : i \in 1..Len(records)} :
    \A i \in 1..Len(records) : m >= records[i][column].v

\* get_weather_stats whose cities_covered counts the records.
stats_counts_rows_as_cities(rows, city, days, clock, fault) ==
  LET records == FilterCity(
                   SelectSeq(rows, LAMBDA r : r["timestamp"].v >= clock - days),
                   city)
  IN IF fault # "none" \/ records = << >> THEN << >>
     ELSE [total_records |-> Len(records),
           avg_temperature |-> <<SumOf(records, "temperature_celsius"), Len(records)>>,
           min_temperature |-> MinOf(records, "temperature_celsius"),
           max_temperature |-> MaxOf(records, "temperature_celsius"),
           avg_humidity |-> <<SumOf(records, "humidity"), Len(records)>>,
           avg_pressure |-> <<SumOf(records, "pressure"), Len(records)>>,
           cities_covered |-> Len(records),
           date_range |-> <<clock - days, clock>>]

\* WeatherDataStorage.get_weather_stats(city, days); the empty dict is << >>,
\* an average is the pair <<sum, count>>
get_weather_stats(rows, city, days, clock, fault) ==
  IF fault # "none" THEN << >>
  ELSE
    LET start_date == clock - days
        records == FilterCity(
                     SelectSeq(rows, LAMBDA r : r["timestamp"].v >= start_date),
                     city)
    IN IF records = << >> THEN << >>
       ELSE [total_records |-> Len(records),
             avg_temperature |-> <<SumOf(records, "temperature_celsius"), Len(records)>>,
             min_temperature |-> MinOf(records, "temperature_celsius"),
             max_temperature |-> MaxOf(records, "temperature_celsius"),
             avg_humidity |-> <<SumOf(records, "humidity"), Len(records)>>,
             avg_pressure |-> <<SumOf(records, "pressure"), Len(records)>>,
             cities_covered |->
               Cardinality({records[i]["city"] : i \in 1..Len(records)}),
             date_range |-> <<start_date, clock>>]

\* -------------------------------------------------------------- environment
CityNames == {"Paris", "London"}

\* A well-formed payload of the provider for city, observed on day.
Payload(city, day) ==
  [name |-> Str(city), country |-> Str("FR"), dt |-> Num(day * 100),
   temp |-> Num(2150), feels_like |-> Num(2000), humidity |-> Num(5000),
   pressure |-> Num(101300), visibility |-> Num(1000000),
   wind_speed |-> Num(350), wind_deg |-> Num(18000), clouds |-> Num(4000),
   description |-> Str("clear sky"), main |-> Str("Clear")]

\* d without key k
Without(d, k) == [f \in DOMAIN d \ {k} |-> d[f]]

\* What a request for city may yield at time clock: a failure, a well-formed
\* payload, one with humidity 150, one without the clouds block.
Responses(city, clock) ==
  {HttpError,
   Payload(city, clock),
   Put(Payload(city, clock), "humidity", Num(15000)),
   Without(Payload(city, clock), "clouds")}

\* Every payload of the model: those of Responses, one with each range-checked
\* value past an end of its range, one without the wind block, one with
\* humidity NaN and one with wind speed NaN.
AllResponses(city, clock) ==
  Responses(city, clock)
    \cup {Put(Payload(city, clock), "temp", Num(TempMax * 100 + 1)),
          Put(Payload(city, clock), "temp", Num(TempMin * 100 - 1)),
          Put(Payload(city, clock), "pressure", Num(PressureMin * 100 - 1)),
          Put(Payload(city, clock), "wind_speed", Num(WindMax * 100 + 1)),
          Put(Payload(city, clock), "clouds", Num(CloudMax * 100 + 1)),
          Without(Payload(city, clock), "wind_speed"),
          Put(Payload(city, clock), "humidity", NaN),
          Put(Payload(city, clock), "wind_speed", NaN)}

\* The city lists a cycle is run for.
RECURSIVE SeqsUpTo(_, _)
SeqsUpTo(S, n) ==
  IF n = 0 THEN {<< >>}
  ELSE LET shorter == SeqsUpTo(S, n - 1)
       IN shorter \cup {Append(q, x) : q \in {r \in shorter : Len(r) = n - 1}, x \in S}

CityLists == SeqsUpTo(CityNames, MaxCities)

\* Records a caller may hand to store_weather_data directly: a cleaned one, one
\* without the city key, one without feels_like, one whose timestamp is text.
CleanRecord(city, day) ==
  clean_weather_data(transform_weather_data(Payload(city, day)))

StoreRecords(clock) ==
  {CleanRecord("Paris", clock),
   Without(CleanRecord("Paris", clock), "city"),
   Without(CleanRecord("London", clock), "feels_like"),
   Put(CleanRecord("London", clock), "timestamp", Str("yesterday"))}

\* The records stored ahead of the read queries: Paris observed before the
\* week's window, now and (the provider's clock ahead of this one) a day from
\* now, London observed now, mild and cold.
QueryRecords(clock) ==
  {CleanRecord("Paris", clock - StatsDays - 1),
   CleanRecord("Paris", clock),
   CleanRecord("Paris", clock + 1),
   CleanRecord("London", clock),
   Put(CleanRecord("London", clock), "temperature_celsius", Num(-500))}

\* The arguments of the read queries.
CityArgs == {None, Str("paris"), Str("on"), Str("P_ris")}
DayArgs == {1, StatsDays}

Queries ==
  {[op |-> "get_latest_weather", city |-> c, days |-> 0, fault |-> "unset"] :
     c \in CityArgs}
    \cup {[op |-> "get_weather_history", city |-> c, days |-> d, fault |-> "unset"] :
            c \in CityArgs \ {None}, d \in DayArgs}
    \cup {[op |-> "get_weather_stats", city |-> c, days |-> d, fault |-> "unset"] :
            c \in CityArgs, d \in DayArgs}

\* What a caller may hand to the validator: a record as the fetcher builds it,
\* and that record with one field absent, None, at or past an end of its
\* range, held as text, or with another kind of timestamp.
BaseRecord == transform_weather_data(Payload("Paris", StatsDays + 1))

RangeEnds ==
  [temperature_celsius |-> <<TempMin, TempMax>>,
   humidity |-> <<HumidityMin, HumidityMax>>,
   pressure |-> <<PressureMin, PressureMax>>,
   wind_speed |-> <<WindMin, WindMax>>,
   cloudiness |-> <<CloudMin, CloudMax>>]

OptionalFields == {"feels_like", "visibility", "wind_speed", "wind_direction",
                   "cloudiness"}

RawRecords ==
  {BaseRecord}
    \cup {Without(BaseRecord, f) : f \in RequiredFields \cup OptionalFields}
    \cup {Put(BaseRecord, f, None) : f \in RequiredFields \cup OptionalFields}
    \cup {Put(BaseRecord, f, Num(RangeEnds[f][1] * 100 + d)) :
            f \in DOMAIN RangeEnds, d \in {-1, 0}}
    \cup {Put(BaseRecord, f, Num(RangeEnds[f][2] * 100 + d)) :
            f \in DOMAIN RangeEnds, d \in {0, 1}}
    \cup {Put(BaseRecord, f, Str(t)) :
            f \in {"humidity", "temperature", "wind_speed"},
            t \in {"50", " 50 ", "150", "n/a"}}
    \cup {Put(BaseRecord, "city", Str(" Paris "))}
    \cup {Put(BaseRecord, "timestamp", x) :
            x \in {Str("yesterday"), DtUtc(StatsDays + 1),
                   Num((MaxDatetimeDay + 1) * 100)}}

\* The records of the lists handed to filter_valid_records.
FilterRecords ==
  {BaseRecord,
   Put(BaseRecord, "city", Str(" Paris ")),
   Put(BaseRecord, "humidity", Num(HumidityMax * 100 + 5000)),
   Without(BaseRecord, "country"),
   Put(BaseRecord, "temperature", Str("n/a")),
   Put(BaseRecord, "timestamp", Num((MaxDatetimeDay + 1) * 100))}

\* ------------------------------------------------------------------- state
VARIABLES
  db,                 \* the rows of table weather_data, in id order
  db_before,          \* db when the running command, or its latest cycle, began
  open_sessions,      \* sessions acquired and not yet closed
  session_trace,      \* the session calls of the latest storage operation
  upload_out,         \* upload_records: [raised, count] of the latest call
  now,                \* the clock, in days
  cmd,                \* the command running: single, continuous, status, store
  pc,                 \* its position
  cities,             \* run_single_collection: the cities argument
  fetch_log,          \* cities requested so far by get_multiple_cities_weather
  weather_data,       \* get_multiple_cities_weather: the list being built
  raw_weather_data,   \* run_single_collection: the fetched records
  valid_weather_data, \* run_single_collection: the validated records
  calls,              \* the calls the cycle has made, in order
  store_in,           \* store_weather_data: the records passed
  store_out,          \* store_weather_data: [raised, count] of the latest call
  result,             \* the dict the latest cycle returned, << >> before
  latest_data,        \* get_pipeline_status: latest_data
  stats,              \* get_pipeline_status: stats
  api_status,         \* what test_connection returned, "unset" until it is called
  status,             \* the dict get_pipeline_status returned, << >> before
  loop_phase,         \* run_continuous: initial, waiting, scheduled
  slept,              \* run_continuous: minutes slept since the job last ran
  interval_minutes,   \* run_continuous: the interval
  exit_how,           \* run_continuous: how the loop ended
  cleanups,           \* who has called cleanup() in this process, in order
  exit_code,          \* the process's exit code, -1 while it runs
  invoked,            \* the validator or read-query call made directly: [op, ...]
  returned            \* what that call returned or raised

storeVars == <<db, db_before, open_sessions, session_trace, store_in, store_out>>
cycleVars == <<cities, fetch_log, weather_data, raw_weather_data,
               valid_weather_data, calls, result, upload_out>>
statusVars == <<latest_data, stats, api_status, status>>
loopVars == <<loop_phase, slept, interval_minutes, exit_how>>
procVars == <<cmd, pc, cleanups, exit_code>>
directVars == <<invoked, returned>>
vars == <<storeVars, cycleVars, statusVars, loopVars, procVars, directVars, now>>

\* No call of store_weather_data (of upload_records) has returned or raised.
NoCallOut == [raised |-> "", count |-> -1]

\* No validator or read-query call is made directly; none has returned.
NoCall == [op |-> "none"]
NoReturn == [raised |-> "unset"]

Init ==
  /\ db = << >>
  /\ db_before = << >>
  /\ open_sessions = 0
  /\ session_trace = << >>
  /\ upload_out = NoCallOut
  /\ now = StatsDays + 1
  /\ cmd = "none"
  /\ pc = "idle"
  /\ cities = << >>
  /\ fetch_log = << >>
  /\ weather_data = << >>
  /\ raw_weather_data = << >>
  /\ valid_weather_data = << >>
  /\ calls = << >>
  /\ store_in = << >>
  /\ store_out = NoCallOut
  /\ result = << >>
  /\ latest_data = << >>
  /\ stats = << >>
  /\ api_status = "unset"
  /\ status = << >>
  /\ loop_phase = "none"
  /\ slept = 0
  /\ interval_minutes = 0
  /\ exit_how = ""
  /\ cleanups = << >>
  /\ exit_code = -1
  /\ invoked = NoCall
  /\ returned = NoReturn

\* No command is running.
AtRest == pc = "idle"

\* A new process: everything but the store, the warehouse and the clock is new
\* (the command sets cities, store_in and the loop's variables).
Fresh(command, position) ==
  /\ cmd' = command
  /\ pc' = position
  /\ session_trace' = << >>
  /\ fetch_log' = << >>
  /\ weather_data' = << >>
  /\ raw_weather_data' = << >>
  /\ valid_weather_data' = << >>
  /\ calls' = << >>
  /\ store_out' = NoCallOut
  /\ result' = << >>
  /\ latest_data' = << >>
  /\ stats' = << >>
  /\ api_status' = "unset"
  /\ status' = << >>
  /\ exit_how' = ""
  /\ cleanups' = << >>
  /\ exit_code' = -1
  /\ upload_out' = NoCallOut
  /\ db_before' = db
  /\ UNCHANGED <<db, open_sessions, now>>

\* --------------------------------------------------------- warehouse loader
UploadFaults == {"none", "job_error"}

\* BigQueryLoader.upload_records(records) under fault ("job_error": the load
\* job or the client raises): what is raised ("" when it returns) and the
\* count returned.
upload_records(records, fault) ==
  IF records = << >> THEN [raised |-> "", count |-> 0]
  ELSE IF fault = "job_error" THEN [raised |-> "GoogleAPIError", count |-> -1]
  ELSE [raised |-> "", count |-> Len(records)]

\* ------------------------------------------------------ run_single_collection
\* A handler that catches ConnectionError alone.
CaughtOnlyConnectionError(exc) == exc = "ConnectionError"

\* `except Exception` of run_single_collection, get_pipeline_status,
\* run_continuous and the storage methods: KeyboardInterrupt is not caught.
CaughtAsException(exc) == exc # "KeyboardInterrupt"

\* The "no data" return reported as an error.
FailedResultAsError(clock) ==
  [status |-> "error", error |-> "no data", collection_time |-> clock]

FailedResult(clock) == [status |-> "failed", collection_time |-> clock]

ErrorResult(exc, clock) ==
  [status |-> "error", error |-> exc, collection_time |-> clock]

SuccessResult(clock, requested, validated, stored, uploaded) ==
  [status |-> "success", collection_time |-> clock,
   cities_requested |-> requested, records_validated |-> validated,
   records_stored |-> stored, records_uploaded |-> uploaded]

\* The frame of a run_single_collection call is gone: its locals and what its
\* callees left are no longer held.
CycleFrameGone ==
  /\ fetch_log' = << >>
  /\ weather_data' = << >>
  /\ raw_weather_data' = << >>
  /\ valid_weather_data' = << >>
  /\ calls' = << >>
  /\ result' = << >>
  /\ session_trace' = << >>
  /\ store_in' = << >>
  /\ store_out' = NoCallOut
  /\ upload_out' = NoCallOut
  /\ api_status' = "unset"

InCycle == pc \in {"preflight", "extract", "transform", "load_local", "load_remote"}

\* The probe's result is recorded and not acted on: the cycle goes on to fetch.
PreflightIgnoresProbe(response) ==
  /\ pc = "preflight"
  /\ calls' = Append(calls, "test_connection")
  /\ api_status' = IF test_connection(response) THEN "up" ELSE "down"
  /\ pc' = "extract"
  /\ UNCHANGED <<directVars, storeVars, latest_data, stats, status, loopVars, now, cmd,
                 cleanups, exit_code, cities, fetch_log, weather_data,
                 raw_weather_data, valid_weather_data, result, upload_out>>

\* weather_pipeline.py 59-60: the probe; unreachable raises ConnectionError,
\* which the handler of line 93 turns into the error result.
Preflight(response) ==
  /\ pc = "preflight"
  /\ calls' = Append(calls, "test_connection")
  /\ api_status' = IF test_connection(response) THEN "up" ELSE "down"
  /\ IF test_connection(response)
     THEN /\ pc' = "extract"
          /\ UNCHANGED result
     ELSE /\ pc' = "cycle_done"
          /\ result' = ErrorResult("ConnectionError", now)
  /\ UNCHANGED <<directVars, storeVars, latest_data, stats, status, loopVars, now, cmd,
                 cleanups, exit_code,
                 cities, fetch_log, weather_data, raw_weather_data,
                 valid_weather_data, upload_out>>

\* weather_client.py 65-72: one pass of the loop of get_multiple_cities_weather
FetchCity(response) ==
  /\ pc = "extract"
  /\ Len(fetch_log) < Len(cities)
  /\ LET city == cities[Len(fetch_log) + 1]
         data == get_current_weather(response)
     IN /\ response \in AllResponses(city, now)
        /\ fetch_log' = Append(fetch_log, city)
        /\ weather_data' = weather_data \o data
  /\ calls' = IF fetch_log = << >>
              THEN Append(calls, "get_multiple_cities_weather") ELSE calls
  /\ UNCHANGED <<directVars, storeVars, statusVars, loopVars, now, procVars, cities,
                 raw_weather_data, valid_weather_data, result, upload_out>>

\* ExtractReturn with a loop that a failed fetch ends: the list is returned
\* after the first location that gave no record.
ExtractReturnOnFailure ==
  /\ pc = "extract"
  /\ Len(fetch_log) = Len(cities) \/ Len(weather_data) < Len(fetch_log)
  /\ raw_weather_data' = weather_data
  /\ calls' = IF fetch_log = << >>
              THEN Append(calls, "get_multiple_cities_weather") ELSE calls
  /\ IF weather_data = << >>
     THEN /\ pc' = "cycle_done"
          /\ result' = FailedResult(now)
     ELSE /\ pc' = "transform"
          /\ UNCHANGED result
  /\ UNCHANGED <<directVars, storeVars, statusVars, loopVars, now, cmd, cleanups, exit_code,
                 cities, fetch_log, weather_data, valid_weather_data, upload_out>>

\* weather_client.py 74-75 and weather_pipeline.py 63-66: the list is returned
ExtractReturn ==
  /\ pc = "extract"
  /\ Len(fetch_log) = Len(cities)
  /\ raw_weather_data' = weather_data
  /\ calls' = IF fetch_log = << >>
              THEN Append(calls, "get_multiple_cities_weather") ELSE calls
  /\ IF weather_data = << >>
     THEN /\ pc' = "cycle_done"
          /\ result' = FailedResult(now)
     ELSE /\ pc' = "transform"
          /\ UNCHANGED result
  /\ UNCHANGED <<directVars, storeVars, statusVars, loopVars, now, cmd, cleanups, exit_code,
                 cities, fetch_log, weather_data, valid_weather_data, upload_out>>

\* weather_pipeline.py 69-72
Transform ==
  /\ pc = "transform"
  /\ calls' = Append(calls, "filter_valid_records")
  /\ valid_weather_data' = filter_valid_records(raw_weather_data)
  /\ IF valid_weather_data' = << >>
     THEN /\ pc' = "cycle_done"
          /\ result' = FailedResult(now)
     ELSE /\ pc' = "load_local"
          /\ UNCHANGED result
  /\ UNCHANGED <<directVars, storeVars, statusVars, loopVars, now, cmd, cleanups, exit_code,
                 cities, fetch_log, weather_data, raw_weather_data, upload_out>>

\* The effect of one call of store_weather_data on the store and the session
\* counters.
StoreCall(records, fault) ==
  LET out == store_weather_data(records, fault, now)
      st == SessionRun([db |-> db, pending |-> << >>, open |-> open_sessions],
                       out.events)
  IN /\ db' = st.db
     /\ open_sessions' = st.open
     /\ session_trace' = [i \in 1..Len(out.events) |-> out.events[i].op]
     /\ store_in' = records
     /\ store_out' = [raised |-> out.raised, count |-> out.count]
     /\ UNCHANGED db_before

\* weather_pipeline.py 75: Load - local storage
LoadLocal(fault) ==
  /\ pc = "load_local"
  /\ calls' = Append(calls, "store_weather_data")
  /\ StoreCall(valid_weather_data, fault)
  /\ LET out == store_weather_data(valid_weather_data, fault, now)
     IN /\ valid_weather_data' = out.records
        /\ IF out.raised = ""
           THEN /\ pc' = "load_remote"
                /\ UNCHANGED result
           ELSE IF CaughtAsException(out.raised)
           THEN /\ pc' = "cycle_done"
                /\ result' = ErrorResult(out.raised, now)
           ELSE /\ pc' = "cycle_interrupted"
                /\ UNCHANGED result
  /\ UNCHANGED <<directVars, statusVars, loopVars, now, cmd, cleanups, exit_code, cities,
                 fetch_log, weather_data, raw_weather_data, upload_out>>

\* weather_pipeline.py 78-91: Load - cloud, then the result summary
LoadRemote(fault) ==
  /\ pc = "load_remote"
  /\ calls' = Append(calls, "upload_records")
  /\ LET up == upload_records(valid_weather_data, fault)
     IN /\ upload_out' = up
        /\ result' = IF up.raised = ""
                     THEN SuccessResult(now, Len(cities), Len(valid_weather_data),
                                        store_out.count, up.count)
                     ELSE ErrorResult(up.raised, now)
  /\ pc' = "cycle_done"
  /\ UNCHANGED <<directVars, storeVars, statusVars, loopVars, now, cmd, cleanups, exit_code,
                 cities, fetch_log, weather_data, raw_weather_data,
                 valid_weather_data>>

\* A KeyboardInterrupt between two steps of the cycle: no handler of
\* run_single_collection catches it.
InterruptCycle ==
  /\ InCycle
  /\ pc' = "cycle_interrupted"
  /\ CycleFrameGone
  /\ UNCHANGED <<directVars, db, db_before, open_sessions, latest_data, stats, status,
                 loopVars, now, cmd, cleanups, exit_code, cities>>

\* ------------------------------------------------------- get_pipeline_status
\* The effect of a read query's session calls on the session counters.
ReadCallDropsLast(fault) ==
  /\ db' = SubSeq(db, 1, Len(db) - 1)
  /\ open_sessions' = open_sessions
  /\ session_trace' = [i \in 1..Len(ReadEvents(fault)) |-> ReadEvents(fault)[i].op]
  /\ UNCHANGED <<db_before, store_in, store_out>>

ReadCall(fault) ==
  LET st == SessionRun([db |-> db, pending |-> << >>, open |-> open_sessions],
                       ReadEvents(fault))
  IN /\ db' = st.db
     /\ open_sessions' = st.open
     /\ session_trace' = [i \in 1..Len(ReadEvents(fault)) |-> ReadEvents(fault)[i].op]
     /\ UNCHANGED <<db_before, store_in, store_out>>

\* weather_pipeline.py 123-128
StatusError(exc) == [pipeline_health |-> "error", error |-> exc]

\* A report whose health follows the data held, not the probe alone.
StatusReportHealthyOnData(api_ok, latest, statistics) ==
  [pipeline_health |-> IF api_ok \/ latest # << >> THEN "healthy" ELSE "unhealthy",
   api_connection |-> api_ok,
   last_update |-> IF latest # << >>
                   THEN Str(ToString(latest[1]["timestamp"].v)) ELSE None,
   total_cities_monitored |->
     IF latest # << >>
     THEN Cardinality({latest[i]["city"] : i \in 1..Len(latest)}) ELSE 0,
   recent_statistics |-> statistics,
   database_connected |-> TRUE]

\* weather_pipeline.py 111-118
StatusReport(api_ok, latest, statistics) ==
  [pipeline_health |-> IF api_ok THEN "healthy" ELSE "unhealthy",
   api_connection |-> api_ok,
   last_update |-> IF latest # << >>
                   THEN Str(ToString(latest[1]["timestamp"].v)) ELSE None,
   total_cities_monitored |->
     IF latest # << >>
     THEN Cardinality({latest[i]["city"] : i \in 1..Len(latest)}) ELSE 0,
   recent_statistics |-> statistics,
   database_connected |-> TRUE]

\* weather_pipeline.py 107
StatusLatest(fault) ==
  /\ pc = "status_latest"
  /\ ReadCall(fault)
  /\ IF ReadRaised(fault) # ""
     THEN /\ status' = IF CaughtAsException(ReadRaised(fault))
                       THEN StatusError(ReadRaised(fault)) ELSE status
          /\ pc' = IF CaughtAsException(ReadRaised(fault))
                   THEN "status_done" ELSE "status_raised"
          /\ UNCHANGED latest_data
     ELSE /\ latest_data' \in get_latest_weather(db, None, fault)
          /\ pc' = "status_stats"
          /\ UNCHANGED status
  /\ UNCHANGED <<directVars, cycleVars, loopVars, now, cmd, cleanups, exit_code, stats,
                 api_status>>

\* weather_pipeline.py 108
StatusStats(fault) ==
  /\ pc = "status_stats"
  /\ ReadCall(fault)
  /\ IF ReadRaised(fault) # ""
     THEN /\ status' = IF CaughtAsException(ReadRaised(fault))
                       THEN StatusError(ReadRaised(fault)) ELSE status
          /\ pc' = IF CaughtAsException(ReadRaised(fault))
                   THEN "status_done" ELSE "status_raised"
          /\ UNCHANGED stats
     ELSE /\ stats' = get_weather_stats(db, None, StatsDays, now, fault)
          /\ pc' = "status_probe"
          /\ UNCHANGED status
  /\ UNCHANGED <<directVars, cycleVars, loopVars, now, cmd, cleanups, exit_code, latest_data,
                 api_status>>

\* weather_pipeline.py 109-121
StatusProbe(response) ==
  /\ pc = "status_probe"
  /\ api_status' = IF test_connection(response) THEN "up" ELSE "down"
  /\ status' = StatusReport(test_connection(response), latest_data, stats)
  /\ pc' = "status_done"
  /\ UNCHANGED <<directVars, storeVars, cycleVars, loopVars, now, cmd, cleanups, exit_code,
                 latest_data, stats>>

\* -------------------------------------------------------------- run_continuous
\* cleanup() called in the KeyboardInterrupt handler in place of a finally.
cleanup_on_interrupt_only(exc) ==
  IF exc = "KeyboardInterrupt" THEN <<"run_continuous">> ELSE << >>

\* weather_pipeline.py 155-160: who calls cleanup() when the try block of
\* run_continuous is left by exc (KeyboardInterrupt or an Exception)
run_continuous_exit(exc) == <<"run_continuous">>

\* A loop that goes on only after a successful cycle: any other result ends it.
CycleReturnsStopsOnFailure ==
  /\ cmd = "continuous"
  /\ pc = "cycle_done"
  /\ IF result["status"] = "success"
     THEN /\ pc' = "waiting"
          /\ loop_phase' = "waiting"
          /\ UNCHANGED <<exit_how, cleanups>>
     ELSE /\ pc' = "continuous_returned"
          /\ exit_how' = "exception"
          /\ cleanups' = Append(cleanups, "run_continuous")
          /\ UNCHANGED loop_phase
  /\ slept' = 0
  /\ CycleFrameGone
  /\ db_before' = db
  /\ UNCHANGED <<directVars, db, open_sessions, latest_data, stats, status, now,
                 cmd, exit_code, cities, interval_minutes>>

\* The initial or a scheduled cycle has returned its result: the loop waits.
CycleReturns ==
  /\ cmd = "continuous"
  /\ pc = "cycle_done"
  /\ pc' = "waiting"
  /\ loop_phase' = "waiting"
  /\ slept' = 0
  /\ CycleFrameGone
  /\ db_before' = db
  /\ UNCHANGED <<directVars, db, open_sessions, latest_data, stats, status, now, cmd,
                 cleanups, exit_code, cities, interval_minutes, exit_how>>

\* weather_pipeline.py 152-153: nothing is due, time.sleep(60)
Sleep ==
  /\ pc = "waiting"
  /\ slept < interval_minutes
  /\ slept' = slept + 1
  /\ UNCHANGED <<directVars, storeVars, cycleVars, statusVars, now, procVars, loop_phase,
                 interval_minutes, exit_how>>

\* weather_pipeline.py 152: schedule.run_pending() runs the job that is due
RunPending ==
  /\ pc = "waiting"
  /\ slept >= interval_minutes
  /\ Len(db) + Len(cities) <= MaxRows
  /\ pc' = "preflight"
  /\ loop_phase' = "scheduled"
  /\ UNCHANGED <<directVars, storeVars, cycleVars, statusVars, now, cmd, cleanups, exit_code,
                 slept, interval_minutes, exit_how>>

\* The try block of run_continuous is left by exc; how names where.
LeaveLoop(exc, how) ==
  /\ exit_how' = how
  /\ cleanups' = cleanups \o run_continuous_exit(exc)
  /\ pc' = "continuous_returned"
  /\ UNCHANGED <<directVars, storeVars, cycleVars, statusVars, now, cmd, exit_code,
                 loop_phase, slept, interval_minutes>>

\* A KeyboardInterrupt left the initial or a scheduled cycle.
InterruptedCycleLeavesLoop ==
  /\ cmd = "continuous"
  /\ pc = "cycle_interrupted"
  /\ LeaveLoop("KeyboardInterrupt",
               IF loop_phase = "initial" THEN "interrupt_initial"
               ELSE "interrupt_scheduled")

\* A KeyboardInterrupt while the loop waits.
InterruptWait ==
  /\ pc = "waiting"
  /\ LeaveLoop("KeyboardInterrupt", "interrupt_wait")

\* schedule.run_pending() or time.sleep() raises an Exception.
LoopFault ==
  /\ pc = "waiting"
  /\ LeaveLoop("RuntimeError", "exception")

\* ----------------------------------------------------------------------- main
\* weather_pipeline.py 220-224: the exit code when main's try block is left by
\* outcome ("returned", "KeyboardInterrupt" or "Exception")
MainExitCode(outcome) == IF outcome = "Exception" THEN 1 ELSE 0

Reachable(c) == Len(db) + Len(c) <= MaxRows

\* main --mode single [--cities ...]
MainSingle(c) ==
  /\ AtRest
  /\ Reachable(c)
  /\ Fresh("single", "preflight")
  /\ cities' = c
  /\ store_in' = << >>
  /\ loop_phase' = "none"
  /\ slept' = 0
  /\ interval_minutes' = 0
  /\ UNCHANGED directVars

\* main --mode continuous [--interval n]: run_continuous schedules the job and
\* runs the initial collection
MainContinuous(c, n) ==
  /\ AtRest
  /\ Reachable(c)
  /\ c # << >>
  /\ Fresh("continuous", "preflight")
  /\ cities' = c
  /\ store_in' = << >>
  /\ loop_phase' = "initial"
  /\ slept' = 0
  /\ interval_minutes' = n
  /\ UNCHANGED directVars

\* main --status
MainStatus ==
  /\ AtRest
  /\ Fresh("status", "status_latest")
  /\ cities' = << >>
  /\ store_in' = << >>
  /\ loop_phase' = "none"
  /\ slept' = 0
  /\ interval_minutes' = 0
  /\ UNCHANGED directVars

\* weather_pipeline.py 204-226: main's try block is left, its handlers and its
\* finally run, the process exits
MainExit ==
  /\ \/ cmd = "single" /\ pc \in {"cycle_done", "cycle_interrupted"}
     \/ cmd = "status" /\ pc \in {"status_done", "status_raised"}
     \/ cmd = "continuous" /\ pc = "continuous_returned"
  /\ exit_code' = MainExitCode(CASE pc = "cycle_interrupted" -> "KeyboardInterrupt"
                                 [] pc = "status_raised" -> "Exception"
                                 [] OTHER -> "returned")
  /\ cleanups' = Append(cleanups, "main")
  /\ pc' = "exited"
  /\ UNCHANGED <<directVars, storeVars, cycleVars, statusVars, loopVars, now, cmd>>

\* The process is gone; the store and the clock remain.
ProcessEnds ==
  /\ pc \in {"exited", "store_returned", "direct_returned"}
  /\ Fresh("none", "idle")
  /\ cities' = << >>
  /\ store_in' = << >>
  /\ loop_phase' = "none"
  /\ slept' = 0
  /\ interval_minutes' = 0
  /\ invoked' = NoCall
  /\ returned' = NoReturn

\* A caller of the storage API hands a batch to store_weather_data.
StoreBegin(batch) ==
  /\ AtRest
  /\ Reachable(batch)
  /\ Fresh("store", "store_call")
  /\ store_in' = batch
  /\ cities' = << >>
  /\ loop_phase' = "none"
  /\ slept' = 0
  /\ interval_minutes' = 0
  /\ UNCHANGED directVars

\* data_storage.py 17-76, called directly
StoreRun(fault) ==
  /\ pc = "store_call"
  /\ StoreCall(store_in, fault)
  /\ pc' = "store_returned"
  /\ UNCHANGED <<directVars, cycleVars, statusVars, loopVars, now, cmd, cleanups, exit_code>>

\* ------------------------------------------------- the validator, called directly
\* What a call gave back: the exception it raised, or the value it returned.
Raised(exc) == [raised |-> exc]
Returned(value) == [raised |-> "", value |-> value]

\* A caller makes call, a function of its arguments alone, and gets ret.
DirectCall(call, ret) ==
  /\ AtRest
  /\ Fresh("validator", "direct_returned")
  /\ cities' = << >>
  /\ store_in' = << >>
  /\ loop_phase' = "none"
  /\ slept' = 0
  /\ interval_minutes' = 0
  /\ invoked' = call
  /\ returned' = ret

\* data_validator.py 13-72
CallValidate(data) ==
  DirectCall([op |-> "validate_weather_data", data |-> data],
             Returned(validate_weather_data(data)))

\* data_validator.py 75-113: the dict returned, and (arg) the caller's dict as
\* the call leaves it: every assignment is to the copy of line 85.
CleanCall(data) ==
  IF CleanRaises(data) THEN Raised("OverflowError")
  ELSE [raised |-> "", value |-> clean_weather_data(data), arg |-> data]

CallClean(data) ==
  DirectCall([op |-> "clean_weather_data", data |-> data, of_cleaned |-> FALSE,
              raw |-> data],
             CleanCall(data))

\* The caller hands the dict clean_weather_data returned to it once more.
CallCleanAgain ==
  /\ pc = "direct_returned"
  /\ invoked.op = "clean_weather_data"
  /\ ~invoked.of_cleaned
  /\ returned.raised = ""
  /\ invoked' = [op |-> "clean_weather_data", data |-> returned.value,
                 of_cleaned |-> TRUE, raw |-> invoked.data]
  /\ returned' = CleanCall(returned.value)
  /\ UNCHANGED <<storeVars, cycleVars, statusVars, loopVars, procVars, now>>

\* data_validator.py 116-136
CallFilter(weather_records) ==
  DirectCall([op |-> "filter_valid_records", weather_records |-> weather_records],
             IF FilterRaises(weather_records) THEN Raised("OverflowError")
             ELSE Returned(filter_valid_records(weather_records)))

\* --------------------------------------------- the read queries, called directly
\* A caller of the storage API makes the read query call.
QueryBegin(call) ==
  /\ AtRest
  /\ Fresh("query", "query_call")
  /\ cities' = << >>
  /\ store_in' = << >>
  /\ loop_phase' = "none"
  /\ slept' = 0
  /\ interval_minutes' = 0
  /\ invoked' = call
  /\ returned' = NoReturn

\* What the query call may give back on rows at time clock under fault.
QueryResults(call, rows, clock, fault) ==
  IF ReadRaised(fault) # "" THEN {Raised(ReadRaised(fault))}
  ELSE CASE call.op = "get_latest_weather" ->
              {Returned(x) : x \in get_latest_weather(rows, call.city, fault)}
         [] call.op = "get_weather_history" ->
              {Returned(x) :
                 x \in get_weather_history(rows, call.city, call.days, clock, fault)}
         [] call.op = "get_weather_stats" ->
              {Returned(get_weather_stats(rows, call.city, call.days, clock, fault))}

\* data_storage.py 78-197: the query runs, meeting fault
QueryRun(fault) ==
  /\ pc = "query_call"
  /\ ReadCall(fault)
  /\ invoked' = [invoked EXCEPT !.fault = fault]
  /\ returned' \in QueryResults(invoked, db, now, fault)
  /\ pc' = "direct_returned"
  /\ UNCHANGED <<cycleVars, statusVars, loopVars, now, cmd, cleanups, exit_code>>

\* Time passes while nothing runs or the loop sleeps.
Tick ==
  /\ pc \in {"idle", "waiting"}
  /\ now < StatsDays + 1 + MaxTicks
  /\ now' = now + 1
  /\ UNCHANGED <<directVars, storeVars, cycleVars, statusVars, loopVars, procVars>>

Next ==
  \/ \E c \in CityLists : MainSingle(c)
  \/ \E c \in CityLists : \E n \in 1..MaxInterval : MainContinuous(c, n)
  \/ MainStatus
  \/ \E batch \in SeqsUpTo(StoreRecords(now), MaxBatch) : StoreBegin(batch)
  \/ \E fault \in StoreFaults : StoreRun(fault)
  \/ \E r \in Responses("London", now) : Preflight(r)
  \/ \E r \in UNION {Responses(c, now) : c \in CityNames} : FetchCity(r)
  \/ ExtractReturn
  \/ Transform
  \/ \E fault \in StoreFaults : LoadLocal(fault)
  \/ \E fault \in UploadFaults : LoadRemote(fault)
  \/ InterruptCycle
  \/ \E fault \in ReadFaults : StatusLatest(fault)
  \/ \E fault \in ReadFaults : StatusStats(fault)
  \/ \E r \in Responses("London", now) : StatusProbe(r)
  \/ CycleReturns
  \/ Sleep
  \/ RunPending
  \/ InterruptedCycleLeavesLoop
  \/ InterruptWait
  \/ LoopFault
  \/ MainExit
  \/ ProcessEnds
  \/ Tick

Spec == Init /\ [][Next]_vars

ValidatorNext ==
  \/ \E data \in RawRecords : CallValidate(data)
  \/ \E data \in RawRecords : CallClean(data)
  \/ CallCleanAgain
  \/ \E weather_records \in SeqsUpTo(FilterRecords, MaxList) :
       CallFilter(weather_records)
  \/ ProcessEnds

\* The validator's three functions called on the records of RawRecords.
ValidatorSpec == Init /\ [][ValidatorNext]_vars

QueryNext ==
  \/ \E batch \in SeqsUpTo(QueryRecords(now), MaxBatch) : StoreBegin(batch)
  \/ \E fault \in StoreFaults : StoreRun(fault)
  \/ \E call \in Queries : QueryBegin(call)
  \/ \E fault \in ReadFaults : QueryRun(fault)
  \/ ProcessEnds

\* The read queries called on what store_weather_data has stored.
QuerySpec == Init /\ [][QueryNext]_vars

CollectNext ==
  \/ \E c \in SeqsUpTo({"Paris"}, MaxCities) : MainSingle(c)
  \/ \E r \in Responses("London", now) : Preflight(r)
  \/ \E r \in AllResponses("Paris", now) : FetchCity(r)
  \/ ExtractReturn
  \/ Transform
  \/ \E fault \in StoreFaults : LoadLocal(fault)
  \/ \E fault \in UploadFaults : LoadRemote(fault)
  \/ MainExit
  \/ ProcessEnds

\* Collection cycles alone, run one after another on every payload of the
\* model.
CollectSpec == Init /\ [][CollectNext]_vars

SystemNext ==
  \/ \E c \in CityLists : MainSingle(c)
  \/ MainStatus
  \/ \E batch \in SeqsUpTo(StoreRecords(now), MaxBatch) : StoreBegin(batch)
  \/ \E fault \in StoreFaults : StoreRun(fault)
  \/ \E call \in Queries : QueryBegin(call)
  \/ \E fault \in ReadFaults : QueryRun(fault)
  \/ \E r \in Responses("London", now) : Preflight(r)
  \/ \E r \in UNION {Responses(c, now) : c \in CityNames} : FetchCity(r)
  \/ ExtractReturn
  \/ Transform
  \/ \E fault \in StoreFaults : LoadLocal(fault)
  \/ \E fault \in UploadFaults : LoadRemote(fault)
  \/ InterruptCycle
  \/ \E fault \in ReadFaults : StatusLatest(fault)
  \/ \E fault \in ReadFaults : StatusStats(fault)
  \/ \E r \in Responses("London", now) : StatusProbe(r)
  \/ MainExit
  \/ ProcessEnds

\* Single cycles, status reports, direct store calls and read queries, in any
\* order on one store.
SystemSpec == Init /\ [][SystemNext]_vars

\* weather_pipeline.py 151-153: `while True` keeps calling run_pending() and
\* sleep(60), and a cycle that has returned hands control back to the loop.
LiveSpec ==
  Init /\ [][Next]_vars
    /\ WF_vars(CycleReturns) /\ WF_vars(Sleep) /\ WF_vars(RunPending)

\* ================================================================== claims
\* run_single_collection has returned its result; its locals are still held.
CycleReturned == cmd \in {"single", "continuous"} /\ pc = "cycle_done"

Called(f) == \E i \in 1..Len(calls) : calls[i] = f

\* The latest store_weather_data call of the cycle committed k >= 1 rows.
StoreCommitted == store_out.raised = "" /\ store_out.count >= 1

\* The rows the cycle added are the last n rows of db, after those of db_before.
AddedRows(n) ==
  /\ Len(db) = Len(db_before) + n
  /\ SubSeq(db, 1, Len(db_before)) = db_before

\* C1 (as claimed): when the probe succeeds, at least one record passes
\* validation and store_weather_data commits, but upload_records raises, the
\* cycle's result has status "success" with records_uploaded = 0.
C1_UploadFailureKeepsSuccess ==
  (CycleReturned /\ api_status = "up" /\ StoreCommitted /\ upload_out.raised # "")
    => /\ result["status"] = "success"
       /\ "records_uploaded" \in DOMAIN result
       /\ result["records_uploaded"] = 0

\* C2: whenever the preflight test_connection() reports unreachable, the cycle
\* ends with status "error" and a populated error message, and neither
\* get_multiple_cities_weather, store_weather_data nor upload_records is called
\* (the store is left unchanged, no session is acquired).
C2_ProbeFailureAborts ==
  (CycleReturned /\ api_status = "down")
    => /\ result["status"] = "error"
       /\ "error" \in DOMAIN result
       /\ result["error"] # ""
       /\ calls = <<"test_connection">>
       /\ fetch_log = << >>
       /\ store_out = NoCallOut
       /\ upload_out = NoCallOut
       /\ session_trace = << >>
       /\ db = db_before

C2_Witness == CycleReturned /\ api_status = "down" /\ cities # << >> /\ db # << >>

\* The probe succeeded and every requested location was fetched without one
\* record being returned.
FetchedNothing ==
  /\ CycleReturned
  /\ api_status = "up"
  /\ Len(fetch_log) = Len(cities)
  /\ weather_data = << >>

AllFetchedInvalid ==
  /\ CycleReturned
  /\ raw_weather_data # << >>
  /\ \A i \in 1..Len(raw_weather_data) : ~validate_weather_data(raw_weather_data[i])

\* C4: when the fetch returns a non-empty set of records but every one of them
\* fails validation (a record with humidity = 150), the cycle ends with status
\* "failed", not "error", and neither store_weather_data nor upload_records is
\* attempted.
C4_AllInvalidFails ==
  AllFetchedInvalid
    => /\ result["status"] = "failed"
       /\ valid_weather_data = << >>
       /\ ~Called("store_weather_data")
       /\ ~Called("upload_records")
       /\ store_out = NoCallOut
       /\ upload_out = NoCallOut
       /\ db = db_before

C4_Witness ==
  /\ AllFetchedInvalid
  /\ Len(raw_weather_data) = 1
  /\ raw_weather_data[1]["humidity"] = Num(HumidityMax * 100 + 5000)

\* The probe succeeded, the fetch returned k >= 1 records that all pass
\* validation, and both the store and the upload returned.
AllValidAllStored ==
  /\ CycleReturned
  /\ api_status = "up"
  /\ raw_weather_data # << >>
  /\ \A i \in 1..Len(raw_weather_data) : validate_weather_data(raw_weather_data[i])
  /\ Called("store_weather_data") /\ store_out.raised = ""
  /\ Called("upload_records") /\ upload_out.raised = ""

\* C5: when the probe succeeds, the fetch returns k >= 1 records that all pass
\* validation, and both store and upload succeed, the result has status
\* "success" and records_stored = k, and exactly those k records are added to
\* the store (in order, after the rows already there).
C5_AllValidStored ==
  AllValidAllStored
    => LET k == Len(raw_weather_data) IN
       /\ result["status"] = "success"
       /\ result["records_stored"] = k
       /\ AddedRows(k)
       /\ \A i \in 1..k :
            LET row == db[Len(db_before) + i]
                raw == raw_weather_data[i]
            IN /\ row["city"].v = Strip(raw["city"].v)
               /\ row["timestamp"].v = raw["timestamp"].v \div 100
               /\ row["temperature_celsius"].v = raw["temperature_celsius"].v
               /\ row["humidity"].v = raw["humidity"].v
               /\ row["pressure"].v = raw["pressure"].v

C5_Witness ==
  /\ AllValidAllStored
  /\ cities = <<"Paris">>
  /\ Len(raw_weather_data) = 1
  /\ result["records_stored"] = 1

\* A store_weather_data call has returned or raised, its batch still known.
StoreCalled ==
  \/ cmd = "store" /\ pc = "store_returned"
  \/ CycleReturned /\ Called("store_weather_data")

\* C6: store_weather_data is all-or-nothing per batch: if constructing any
\* record of the batch fails, no record of that batch, those processed before
\* the failing one included, is persisted, the error is re-raised to the
\* caller, and the store's contents equal those before the call; a call that
\* returns has added the whole batch.
C6_StoreAllOrNothing ==
  StoreCalled
    => /\ FirstKeyError(store_in) # 0 => store_out.raised # ""
       /\ store_out.raised # "" => db = db_before
       /\ store_out.raised = "" => AddedRows(Len(store_in))
       /\ open_sessions = 0

C6_Witness ==
  /\ cmd = "store" /\ pc = "store_returned"
  /\ FirstKeyError(store_in) = 2
  /\ store_out.raised = "KeyError"

\* store_weather_data raised an exception of its own (not an interrupt).
StoreRaised == store_out.raised \in {"KeyError", "IntegrityError", "OperationalError"}

\* C7: whenever store_weather_data raises in run_single_collection, the cycle
\* ends with status "error" (never "success" or "failed"), the exception does
\* not escape run_single_collection, and upload_records is not attempted.
C7_StoreFailureIsError ==
  (cmd \in {"single", "continuous"} /\ StoreRaised)
    => /\ pc \in {"cycle_done", "exited"}
       /\ result # << >>
       /\ result["status"] = "error"
       /\ result["error"] = store_out.raised
       /\ ~Called("upload_records")
       /\ upload_out = NoCallOut

C7_Witness ==
  /\ CycleReturned
  /\ StoreRaised
  /\ Len(valid_weather_data) = MaxCities

\* C8 (as claimed): the single-cycle command exits non-zero exactly when the
\* cycle's terminal status is not "success".
C8_ExitCodeFollowsStatus ==
  (cmd = "single" /\ pc = "exited" /\ result # << >>)
    => (exit_code # 0 <=> result["status"] # "success")

\* C9: get_pipeline_status never raises to its caller and reports
\* pipeline_health = "healthy" if and only if the connectivity probe taken
\* during that call succeeds, whatever the store contains and whichever read
\* query fails.
C9_HealthFollowsProbe ==
  cmd = "status"
    => /\ pc # "status_raised"
       /\ pc \in {"status_done", "exited"}
            => /\ status # << >>
               /\ status["pipeline_health"] = "healthy" <=> api_status = "up"

\* The store holds rows, the latest-rows query failed, the probe succeeded.
C9_Witness ==
  /\ cmd = "status" /\ pc = "status_done"
  /\ db # << >>
  /\ latest_data = << >>
  /\ api_status = "up"

\* C10: run_continuous always executes the cleanup step on exit, on every way
\* the loop can end: interrupt during the initial cycle, while waiting, during
\* a scheduled cycle, or an exception in the loop.
C10_CleanupOnEveryExit ==
  (cmd = "continuous" /\ pc = "continuous_returned")
    => /\ exit_how \in {"interrupt_initial", "interrupt_wait",
                        "interrupt_scheduled", "exception"}
       /\ cleanups = <<"run_continuous">>

C10_Witness ==
  /\ cmd = "continuous" /\ pc = "continuous_returned"
  /\ exit_how = "exception"
  /\ db # << >>

\* A cycle of the continuous mode has ended in "failed" or "error".
CycleFailedInLoop ==
  /\ cmd = "continuous"
  /\ pc = "cycle_done"
  /\ result["status"] \in {"failed", "error"}

\* C11: in continuous mode one cycle runs immediately on start, and a cycle
\* ending in "failed" or "error" never ends the loop: the step after any cycle's
\* return is the wait, the loop is left only from the wait or by an interrupted
\* cycle, and (while the store has room for the next batch) after a failed
\* cycle a scheduled cycle is started unless a stop signal or a fault of the
\* loop itself ends it first.
C11_FailedCycleKeepsLooping ==
  /\ [][(cmd # "continuous" /\ cmd' = "continuous")
          => (pc' = "preflight" /\ loop_phase' = "initial")]_vars
  /\ [][(cmd = "continuous" /\ pc = "cycle_done")
          => (pc' = "waiting" /\ exit_how' = "" /\ cleanups' = << >>)]_vars
  /\ [][(pc # "continuous_returned" /\ pc' = "continuous_returned")
          => /\ pc \in {"waiting", "cycle_interrupted"}
             /\ exit_how' \in {"interrupt_initial", "interrupt_wait",
                                "interrupt_scheduled", "exception"}]_vars
  /\ (CycleFailedInLoop /\ Reachable(cities))
       ~> \/ pc = "preflight" /\ loop_phase = "scheduled"
          \/ pc = "continuous_returned"

\* The initial cycle stored nothing, the loop went on, and a scheduled cycle has
\* failed in its turn.
C11_Witness ==
  /\ CycleFailedInLoop
  /\ loop_phase = "scheduled"
  /\ db = << >>
  /\ result["status"] = "failed"

\* f(...) has been called directly and has returned or raised.
DirectlyCalled(f) == pc = "direct_returned" /\ invoked.op = f

\* A mandatory field of data is missing or null.
MandatoryMissing(data) ==
  \E f \in RequiredFields : f \notin DOMAIN data \/ data[f] = None

\* x is a number (or the text of one) below lo or above hi.
Outside(x, lo, hi) ==
  FloatOk(x) /\ (FloatVal(x) < lo * 100 \/ FloatVal(x) > hi * 100)

\* x is a number (or the text of one) of [lo, hi], the ends included.
Within(x, lo, hi) ==
  FloatOk(x) /\ ~(FloatVal(x) < lo * 100) /\ ~(FloatVal(x) > hi * 100)

\* Field f of data is absent, null or in [lo, hi].
AbsentNullOrWithin(data, f, lo, hi) ==
  f \notin DOMAIN data \/ data[f] = None \/ Within(data[f], lo, hi)

\* All mandatory fields are present and the range-checked ones in range.
MandatoryPresentInRange(data) ==
  /\ ~MandatoryMissing(data)
  /\ Within(data["temperature_celsius"], TempMin, TempMax)
  /\ Within(data["humidity"], HumidityMin, HumidityMax)
  /\ Within(data["pressure"], PressureMin, PressureMax)

\* C12 (as claimed): validate_weather_data returns false for every record in
\* which a mandatory field is missing or null, and true for every record in
\* which all mandatory fields are present and every numeric field is in range,
\* whether the optional fields (wind_speed, cloudiness) are absent, null or in
\* range.
C12_ValidateByMandatoryFields ==
  DirectlyCalled("validate_weather_data")
    => /\ MandatoryMissing(invoked.data) => returned.value = FALSE
       /\ (/\ MandatoryPresentInRange(invoked.data)
           /\ AbsentNullOrWithin(invoked.data, "wind_speed", WindMin, WindMax)
           /\ AbsentNullOrWithin(invoked.data, "cloudiness", CloudMin, CloudMax))
            => returned.value = TRUE

\* C13: validate_weather_data returns false for every record with
\* temperature_celsius outside [-100, 60], humidity outside [0, 100], pressure
\* outside [800, 1200], cloudiness outside [0, 100] or a present wind_speed
\* outside [0, 200]; a record with its mandatory fields present whose five
\* values lie in these ranges, the ends included, is accepted.
C13_OutOfRangeRejected ==
  DirectlyCalled("validate_weather_data")
    => LET data == invoked.data IN
       /\ (\/ Outside(Get(data, "temperature_celsius"), TempMin, TempMax)
           \/ Outside(Get(data, "humidity"), HumidityMin, HumidityMax)
           \/ Outside(Get(data, "pressure"), PressureMin, PressureMax)
           \/ Outside(Get(data, "cloudiness"), CloudMin, CloudMax)
           \/ Outside(Get(data, "wind_speed"), WindMin, WindMax))
            => returned.value = FALSE
       /\ (/\ MandatoryPresentInRange(data)
           /\ Within(Get(data, "cloudiness"), CloudMin, CloudMax)
           /\ Within(Get(data, "wind_speed"), WindMin, WindMax))
            => returned.value = TRUE

\* A record whose temperature is the lower end of its range has been accepted.
C13_Witness ==
  /\ DirectlyCalled("validate_weather_data")
  /\ Get(invoked.data, "temperature_celsius") = Num(TempMin * 100)
  /\ returned.value = TRUE

\* out holds, in the order of L, the cleaned form of every record of L that
\* validate_weather_data accepts, and nothing else.
CleanedValidOnes(L, out) ==
  \E f \in [1..Len(out) -> 1..Len(L)] :
    /\ \A i, j \in 1..Len(out) : i < j => f[i] < f[j]
    /\ \A i \in 1..Len(out) :
         /\ validate_weather_data(L[f[i]])
         /\ out[i] = clean_weather_data(L[f[i]])
    /\ \A k \in 1..Len(L) :
         validate_weather_data(L[k]) => \E i \in 1..Len(out) : f[i] = k

\* C14 (as claimed): filter_valid_records(L) returns a list no longer than L,
\* in the input order, in which every returned (cleaned) record itself
\* satisfies validate_weather_data and corresponds to an input record that
\* satisfies it; an invalid record is dropped without raising and does not
\* prevent later records of L from being returned.
C14_FilterReturnsValidRecords ==
  DirectlyCalled("filter_valid_records")
    => LET L == invoked.weather_records IN
       /\ (\A k \in 1..Len(L) : ~validate_weather_data(L[k]))
            => returned = Returned(<< >>)
       /\ returned.raised = ""
            => /\ Len(returned.value) <= Len(L)
               /\ CleanedValidOnes(L, returned.value)
               /\ \A i \in 1..Len(returned.value) :
                    validate_weather_data(returned.value[i])

\* C15: clean_weather_data is idempotent, clean(clean(x)) = clean(x) for every
\* raw record x that it cleans (a converted timestamp is not converted again,
\* a numeric field nulled on parse failure stays null, a trimmed string is
\* unchanged), the second call does not raise, and a call leaves its input
\* record as it was.
C15_CleanIdempotent ==
  DirectlyCalled("clean_weather_data")
    => /\ invoked.of_cleaned => returned.raised = ""
       /\ returned.raised = ""
            => /\ returned.arg = invoked.data
               /\ invoked.of_cleaned => returned.value = invoked.data

\* The record with a padded city and an epoch timestamp has been cleaned, and
\* the result cleaned again.
C15_Witness ==
  /\ DirectlyCalled("clean_weather_data")
  /\ invoked.of_cleaned
  /\ invoked.raw["city"] = Str(" Paris ")
  /\ IsNumber(invoked.raw["timestamp"])
  /\ returned.value["city"] = Str("Paris")
  /\ returned.value["timestamp"] = DtUtc(StatsDays + 1)

\* C16: store_weather_data([]) returns 0 and performs no transaction: no
\* session is acquired, nothing is committed or rolled back, and the store is
\* unchanged.
C16_EmptyStoreIsNoop ==
  (cmd = "store" /\ pc = "store_returned" /\ store_in = << >>)
    => /\ store_out = [raised |-> "", count |-> 0]
       /\ session_trace = << >>
       /\ open_sessions = 0
       /\ db = db_before

\* The empty batch was handed to a store that holds rows.
C16_Witness ==
  /\ cmd = "store" /\ pc = "store_returned"
  /\ store_in = << >>
  /\ db # << >>

\* name contains text, case ignored (the names and arguments of the model).
ContainsNoCase(text, name) ==
  <<text, name>> \in {<<"paris", "Paris">>, <<"paris", " Paris ">>,
                      <<"on", "London">>}

\* The read query f has been called directly and met no storage fault.
QueriedNoFault(f) == DirectlyCalled(f) /\ invoked.fault = "none"

\* Row r is of the location asked for: no location given, or one its name
\* contains.
OfLocation(r, city) == ~CityGiven(city) \/ ContainsNoCase(city.v, r["city"].v)

\* C17 (as claimed): for any store contents reachable by successful store
\* calls, duplicate (location, timestamp) rows included, get_latest_weather
\* returns exactly one row per distinct location, that row's timestamp is the
\* maximum stored for the location, and with a location argument only
\* locations whose name contains it, case ignored, are returned.
C17_LatestOnePerLocation ==
  QueriedNoFault("get_latest_weather")
    => /\ returned.raised = ""
       /\ LET out == returned.value IN
          /\ \A i, j \in 1..Len(out) : i # j => out[i]["city"] # out[j]["city"]
          /\ {out[i]["city"] : i \in 1..Len(out)}
               = {db[k]["city"] : k \in {m \in 1..Len(db) :
                                            OfLocation(db[m], invoked.city)}}
          /\ \A i \in 1..Len(out) :
               /\ \E k \in 1..Len(db) : db[k] = out[i]
               /\ \A k \in 1..Len(db) :
                    db[k]["city"] = out[i]["city"]
                      => db[k]["timestamp"].v <= out[i]["timestamp"].v

\* C18 (as claimed): get_weather_history(location, N) returns exactly the
\* stored records whose city contains location, case ignored, and whose
\* timestamp lies in [now - N days, now], in descending timestamp order: never
\* a record older than now - N days, never one later than now, never one of a
\* location that does not match.
C18_HistoryWithinWindow ==
  QueriedNoFault("get_weather_history")
    => /\ returned.raised = ""
       /\ LET out == returned.value
              hit == {k \in 1..Len(db) :
                        /\ ContainsNoCase(invoked.city.v, db[k]["city"].v)
                        /\ db[k]["timestamp"].v >= now - invoked.days
                        /\ db[k]["timestamp"].v <= now}
          IN /\ Len(out) = Cardinality(hit)
             /\ {out[i] : i \in 1..Len(out)} = {db[k] : k \in hit}
             /\ \A i, j \in 1..Len(out) :
                  i < j => out[i]["timestamp"].v >= out[j]["timestamp"].v

\* The rows the filter of get_weather_stats(city, days) selects at time now:
\* those not older than now - days, of a city the location pattern matches.
StatsSelected ==
  {k \in 1..Len(db) :
     /\ db[k]["timestamp"].v >= now - invoked.days
     /\ CityGiven(invoked.city) => ILike(invoked.city.v, db[k]["city"].v)}

C20_ReadFaultGivesEmpty ==
  (pc = "direct_returned" /\ cmd = "query" /\ invoked.fault # "none")
    => /\ returned = Returned(<< >>)
       /\ db = db_before
       /\ open_sessions = 0

\* x is absent (None) or a number of [lo, hi].
NoneOrWithin(x, lo, hi) == x = None \/ (IsNumber(x) /\ Within(x, lo, hi))

\* C21: after any sequence of collection cycles, whatever payloads the fetcher
\* returned, every record persisted in the store satisfies
\* -100 <= temperature_celsius <= 60, 0 <= humidity <= 100,
\* 800 <= pressure <= 1200, 0 <= cloudiness <= 100 and, if wind speed is
\* present, 0 <= wind_speed <= 200.
C21_PersistedInRange ==
  \A k \in 1..Len(db) :
    /\ IsNumber(db[k]["temperature_celsius"])
    /\ Within(db[k]["temperature_celsius"], TempMin, TempMax)
    /\ IsNumber(db[k]["humidity"])
    /\ Within(db[k]["humidity"], HumidityMin, HumidityMax)
    /\ IsNumber(db[k]["pressure"])
    /\ Within(db[k]["pressure"], PressureMin, PressureMax)
    /\ IsNumber(db[k]["cloudiness"])
    /\ Within(db[k]["cloudiness"], CloudMin, CloudMax)
    /\ NoneOrWithin(db[k]["wind_speed"], WindMin, WindMax)

\* A cycle fetched a record with wind speed past its range and one with wind
\* speed NaN, and stored the second alone, its wind speed NULL.
C21_Witness ==
  /\ CycleReturned
  /\ Len(raw_weather_data) = 2
  /\ raw_weather_data[1]["wind_speed"] = Num(WindMax * 100 + 1)
  /\ raw_weather_data[2]["wind_speed"] = NaN
  /\ store_out = [raised |-> "", count |-> 1]
  /\ db # << >>
  /\ db[Len(db)]["wind_speed"] = None

\* The step is one of a read operation: a query of get_pipeline_status or a
\* read query called directly.
ReadStep == pc \in {"status_latest", "status_stats", "status_probe", "query_call"}

\* The step is a call of store_weather_data that returned after its commit.
CommittingStoreStep ==
  /\ pc \in {"store_call", "load_local"}
  /\ store_out'.raised = ""
  /\ session_trace'[Len(session_trace') - 1] = "commit"
  /\ Len(db') = Len(db) + store_out'.count

\* C22: the store is append-only: across any sequence of cycles, status
\* queries and read queries, a record once persisted is never modified or
\* removed; get_pipeline_status, get_latest_weather, get_weather_history and
\* get_weather_stats leave the persisted records unchanged; only a store call
\* that commits adds records.
C22_AppendOnly ==
  [][/\ Len(db') >= Len(db)
     /\ SubSeq(db', 1, Len(db)) = db
     /\ ReadStep => db' = db
     /\ db' # db => CommittingStoreStep]_vars

\* A read query has returned rows of a store that two commits have filled.
C22_Witness ==
  /\ cmd = "query" /\ pc = "direct_returned"
  /\ invoked.op = "get_weather_history"
  /\ returned.raised = ""
  /\ Len(returned.value) >= 1
  /\ Len(db) >= 2
  /\ db = db_before

\* The step is one storage operation: store_weather_data, get_latest_weather,
\* get_weather_history or get_weather_stats, called by the orchestrator or
\* directly.
StorageStep ==
  pc \in {"store_call", "load_local", "status_latest", "status_stats", "query_call"}

\* How many calls of trace are op.
CallsOf(trace, op) == Cardinality({i \in 1..Len(trace) : trace[i] = op})

\* trace is of one session: acquired first, released last, once each.
OneSession(trace) ==
  /\ Len(trace) >= 2
  /\ trace[1] = "get_session"
  /\ trace[Len(trace)] = "close"
  /\ CallsOf(trace, "get_session") = 1
  /\ CallsOf(trace, "close") = 1

\* The storage operation of this step made no session call because it had
\* nothing to store, or because get_session itself raised.
NothingToStoreOrNoSession ==
  \/ pc \in {"store_call", "load_local"}
       /\ (store_in' = << >> \/ store_out'.raised = "OperationalError")
  \/ pc = "query_call" /\ returned'.raised = "OperationalError"
  \/ pc \in {"status_latest", "status_stats"} /\ pc' = "status_done"

\* C23 (as claimed): each storage operation (store, latest, history, stats)
\* acquires exactly one session and releases it before returning or raising,
\* and the number of open sessions is 0 between operations.
C23_ExactlyOneSession ==
  [][StorageStep => OneSession(session_trace') /\ open_sessions' = 0]_vars

\* C23 (amended): each storage operation acquires at most one session, none
\* only when the batch to store is empty or get_session itself raises, and
\* releases the session it acquired before returning or raising, on the
\* commit path, the rollback path, the interrupt path and the read-fault path
\* alike; no session is open in any state between operations, so none is open
\* while the orchestrator fetches, validates or uploads.
C23_AtMostOneSessionReleased ==
  /\ [](open_sessions = 0)
  /\ [][StorageStep
         => /\ session_trace' = << >> \/ OneSession(session_trace')
            /\ session_trace' = << >> => NothingToStoreOrNoSession]_vars

\* A cycle whose commit failed has returned: its one session was rolled back
\* and closed.
C23_Witness ==
  /\ CycleReturned
  /\ store_out.raised = "OperationalError"
  /\ session_trace = <<"get_session", "add", "rollback", "close">>
  /\ open_sessions = 0

\* get_multiple_cities_weather has returned its list to the cycle.
FetchesReturned ==
  /\ cmd \in {"single", "continuous"}
  /\ \/ pc \in {"transform", "load_local", "load_remote"}
     \/ pc = "cycle_done" /\ Called("get_multiple_cities_weather")

\* The cycle's RunResult has status "success".
Succeeded == result # << >> /\ result["status"] = "success"

\* C24: get_multiple_cities_weather calls the fetcher exactly once per
\* requested location in list order, a failure for one location does not stop
\* the fetches for later locations, and failed locations are simply absent
\* from the result; consequently every RunResult with status "success" has
\* records_uploaded = records_stored = records_validated and
\* 1 <= records_validated <= cities_requested.
C24_FetchEachOncePartialResults ==
  /\ [](/\ fetch_log = SubSeq(cities, 1, Len(fetch_log))
        /\ Len(weather_data) <= Len(fetch_log)
        /\ \A i \in 1..Len(weather_data) : IsPayload(weather_data[i])
        /\ FetchesReturned => fetch_log = cities
        /\ Succeeded
             => /\ result["records_uploaded"] = result["records_stored"]
                /\ result["records_stored"] = result["records_validated"]
                /\ result["records_validated"] >= 1
                /\ result["records_validated"] <= result["cities_requested"]
                /\ result["cities_requested"] = Len(cities))
  /\ [][(pc = "extract" /\ pc' = "extract" /\ fetch_log' # fetch_log)
         => /\ Len(fetch_log) < Len(cities)
            /\ fetch_log' = Append(fetch_log, cities[Len(fetch_log) + 1])
            /\ \/ weather_data' = weather_data
               \/ /\ Len(weather_data') = Len(weather_data) + 1
                  /\ SubSeq(weather_data', 1, Len(weather_data)) = weather_data]_vars

\* Of two requested locations the first failed and the second was fetched,
\* stored and uploaded: the cycle succeeded with one record.
C24_Witness ==
  /\ CycleReturned
  /\ cities = <<"Paris", "London">>
  /\ fetch_log = cities
  /\ Len(weather_data) = 1
  /\ weather_data[1]["city"] = Str("London")
  /\ Succeeded
  /\ result["records_validated"] = 1
  /\ result["records_uploaded"] = 1
  /\ result["cities_requested"] = 2

====
